---- MODULE Spec2Model ----
(***************************************************************************)
(* Model of the TowerOps Terraform provider: the resource handlers of      *)
(* internal/provider/site_resource.go and device_resource.go (Create,      *)
(* Read, Update, Delete) on top of the API client (doRequest and the       *)
(* eight CRUD methods).  One resource instance of one kind is reconciled   *)
(* against a remote system that answers every call with an HTTP reply.     *)
(*                                                                         *)
(* Attribute values are strings.  NULL stands for a null attribute or a    *)
(* nil pointer of the Go structs, UNKNOWN for an unknown planned value.    *)
(*                                                                         *)
(* lastOp, outcome, calls, diag, lastErr, lastResp and plan record the     *)
(* last handler run, declared the configuration it was planned from (all   *)
(* null for Read and Delete); replies and errs hold the reply received to each of   *)
(* its calls and the error the client method returned for it; refreshes    *)
(* is a history variable: the number of successful Reads in a row that     *)
(* got the same response (at most 2).  boundId is the id returned by the   *)
(* most recent successful create, or the id of the most recent successful  *)
(* import (NULL when the state was removed since),                         *)
(* stale the ids that a recreate has replaced.  client is the API client   *)
(* the provider's Configure built (NoClient before, and after a rejected   *)
(* configuration), providerConfig the provider block it was last run on    *)
(* and providerDiag the error that run reported ("" for none).             *)
(* other holds a second resource instance that shares the client and the   *)
(* remote system, as the record of its own variables (NoInstance when      *)
(* there is none); the handlers run on the instance in the variables.      *)
(* idless tells whether the remote system may answer a create with a body  *)
(* that has no id.                                                         *)
(***************************************************************************)
EXTENDS Integers, Sequences, FiniteSets, TLC

VARIABLES kind, faulty, lifecycle, state, remote, nextId,
          lastOp, outcome, calls, replies, errs, diag, lastErr, lastResp, plan,
          declared, refreshes, boundId, stale,
          client, providerConfig, providerDiag, other, idless

vars == <<kind, faulty, lifecycle, state, remote, nextId,
          lastOp, outcome, calls, replies, errs, diag, lastErr, lastResp, plan,
          declared, refreshes, boundId, stale,
          client, providerConfig, providerDiag, other, idless>>

\* Number of ids the remote system can assign (bounds the number of creates).
MaxId == 2

IdNames == <<"id1", "id2", "id3", "id4", "id5", "id6", "id7", "id8">>

IdOf(n) == IdNames[n]

NULL == "<null>"

UNKNOWN == "<unknown>"

----------------------------------------------------------------------------
(* Attribute accessors of the plugin framework value types.               *)

IsNull(v) == v = NULL

BoolFields == {"monitoring_enabled", "snmp_enabled"}

IntFields == {"snmp_port"}

\* ValueString / ValueBool / ValueInt64: the zero value for null or unknown.
ValueOf(f, v) ==
    IF v \in {NULL, UNKNOWN}
    THEN (IF f \in BoolFields THEN "false" ELSE IF f \in IntFields THEN "0" ELSE "")
    ELSE v

----------------------------------------------------------------------------
(* Data model.                                                             *)

SiteFields == {"id", "name", "location", "snmp_community", "inserted_at"}

V3Fields == {"snmpv3_security_level", "snmpv3_username", "snmpv3_auth_protocol",
             "snmpv3_auth_password", "snmpv3_priv_protocol", "snmpv3_priv_password"}

ParentFields == {"site_id", "organization_id"}

DefaultedFields == {"monitoring_enabled", "snmp_enabled", "snmp_version", "snmp_port"}

DeviceFields == {"id", "name", "ip_address", "description", "inserted_at"}
                  \cup ParentFields \cup DefaultedFields \cup V3Fields

\* Pointer-typed members of the Device struct (nil when the JSON omits them).
DevicePtrFields == DeviceFields \ {"id", "ip_address", "inserted_at"}

FieldsOf(k) == IF k = "site" THEN SiteFields ELSE DeviceFields

\* A state, plan or response that is absent.
NullObj(k) == [f \in FieldsOf(k) |-> NULL]

----------------------------------------------------------------------------
(* API client.                                                             *)

\* The error message the remote system puts in the body of an error reply.
RemoteMessage(s) ==
    CASE s = 404 -> "not found"
      [] s = 422 -> "is invalid"
      [] OTHER   -> "internal server error"

\* Errors: the kind, the words the text starts with, the status code the
\* text carries, and the message part of the text.
NoErr == [kind |-> "nil", format |-> "", status |-> 0, msg |-> ""]

\* errors.New("resource not found")
ErrNotFound ==
    [kind |-> "notfound", format |-> "", status |-> 404,
     msg |-> "resource not found"]

\* The body of an error reply as doRequest sees it: whether it decodes into
\* APIError, the error member, the errors member (a set of <<field,
\* message>> pairs), and the text of the body.
ErrorBody(j, e, es, raw) ==
    [json |-> j, error |-> e, errors |-> es, raw |-> raw]

\* The ordinary body of an error reply: {"error": message} when it is JSON,
\* the bare message when it is not.
MessageBody(s, v) ==
    IF v THEN ErrorBody(TRUE, RemoteMessage(s), {}, "{error}")
    ELSE ErrorBody(FALSE, "", {}, RemoteMessage(s))

\* fmt's %v of a map[string]string.
Sprint(es) ==
    IF es = {} THEN "map[]"
    ELSE IF es = {<<"ip_address", "is invalid">>}
         THEN "map[ip_address:is invalid]"
         ELSE "map[...]"

\* Mutant: the validation map is preferred to the error string.
SelectMessage_MapFirst(b) ==
    IF b.json /\ b.errors # {}
    THEN [format |-> "API validation error", msg |-> Sprint(b.errors)]
    ELSE IF b.json /\ b.error # ""
         THEN [format |-> "API error", msg |-> b.error]
         ELSE [format |-> "API error", msg |-> b.raw]

\* The words and the message of the error for a status of 400 and above
\* other than 404.
SelectMessage(b) ==
    IF b.json /\ b.error # ""
    THEN [format |-> "API error", msg |-> b.error]
    ELSE IF b.json /\ b.errors # {}
         THEN [format |-> "API validation error", msg |-> Sprint(b.errors)]
         ELSE [format |-> "API error", msg |-> b.raw]

\* "<format> (status): message"
APIError(s, b) ==
    [kind |-> "api", format |-> SelectMessage(b).format, status |-> s,
     msg |-> SelectMessage(b).msg]

\* "API error (status): message", the message being the remote system's.
APIErr(s) == APIError(s, MessageBody(s, TRUE))

TransportErr ==
    [kind |-> "transport", format |-> "", status |-> 0, msg |-> "request failed"]

DecodeErr ==
    [kind |-> "decode", format |-> "", status |-> 0,
     msg |-> "failed to unmarshal response"]

\* Mutant: no error is recognised as ErrNotFound.
IsNotFound_Never(err) == FALSE

\* Mutant: every error answer of the remote system counts as ErrNotFound.
IsNotFound_AnyRemote(err) == err.kind \in {"notfound", "api"}

\* errors.Is(err, ErrNotFound)
IsNotFound(err) == err = ErrNotFound

\* A reply of the remote system: transport failure, or a status code with a
\* body that is valid JSON for the resource (obj) or is not.  body is what
\* the body holds when the status is an error.
Reply(t, s, v, o) ==
    [transport |-> t, status |-> s, valid |-> v, obj |-> o,
     body |-> MessageBody(s, v)]

\* An error reply with the given body.
ErrorReply(k, s, b) ==
    [transport |-> FALSE, status |-> s, valid |-> b.json, obj |-> NullObj(k),
     body |-> b]

\* Mutant: a 404 counts as ErrNotFound only when its body is a JSON error.
doRequest_NotFoundByBody(reply) ==
    IF reply.transport THEN TransportErr
    ELSE IF reply.status >= 400
         THEN (IF reply.status = 404 /\ reply.valid
               THEN ErrNotFound ELSE APIError(reply.status, reply.body))
         ELSE NoErr

\* What doRequest sees of a reply: whether the request failed, the status
\* code, whether the body is JSON, and the members of its top-level object.
Received(reply) ==
    [transport |-> reply.transport, status |-> reply.status,
     valid |-> reply.valid, obj |-> reply.obj, body |-> reply.body]

doRequest(reply) ==
    IF reply.transport THEN TransportErr
    ELSE IF reply.status >= 400
         THEN (IF reply.status = 404 THEN ErrNotFound
               ELSE APIError(reply.status, reply.body))
         ELSE NoErr

\* Mutant: a body that is not JSON decodes to the zero resource, no error.
Unmarshal_Lenient(k, reply) ==
    LET err == doRequest(reply)
    IN  IF err # NoErr THEN [err |-> err, res |-> NullObj(k)]
        ELSE IF ~reply.valid THEN [err |-> NoErr, res |-> NullObj(k)]
        ELSE [err |-> NoErr, res |-> reply.obj]

\* json.Unmarshal of the response body after a successful doRequest.
Unmarshal(k, reply) ==
    LET err == doRequest(reply)
    IN  IF err # NoErr THEN [err |-> err, res |-> NullObj(k)]
        ELSE IF ~reply.valid THEN [err |-> DecodeErr, res |-> NullObj(k)]
        ELSE [err |-> NoErr, res |-> reply.obj]

CreateSite(reply) == Unmarshal("site", reply)

GetSite(reply) == Unmarshal("site", reply)

UpdateSite(reply) == Unmarshal("site", reply)

DeleteSite(reply) == doRequest(reply)

CreateDevice(reply) == Unmarshal("device", reply)

GetDevice(reply) == Unmarshal("device", reply)

UpdateDevice(reply) == Unmarshal("device", reply)

DeleteDevice(reply) == doRequest(reply)

\* There is no second instance.
NoInstance == [kind |-> "none"]

\* Mutant: the site and the device collections are swapped.
PathOf_Swapped(k, m, id) ==
    <<"api", "v1", IF k = "site" THEN "devices" ELSE "sites">>
        \o (IF m = "POST" THEN <<>> ELSE <<id>>)

\* Mutant: the client keeps the id of the object of the second instance
\* and addresses it in place of the id passed in.
PathOf_SharedId(k, m, id) ==
    <<"api", "v1", IF k = "site" THEN "sites" ELSE "devices">>
        \o (IF m = "POST" THEN <<>>
            ELSE IF other # NoInstance /\ other.kind = k /\ other.boundId # NULL
                 THEN <<other.boundId>> ELSE <<id>>)

\* The path of a request, as its segments: "/api/v1/sites" and
\* "/api/v1/devices" for create, "/api/v1/sites/"+id and
\* "/api/v1/devices/"+id for read, update and delete.
PathOf(k, m, id) ==
    <<"api", "v1", IF k = "site" THEN "sites" ELSE "devices">>
        \o (IF m = "POST" THEN <<>> ELSE <<id>>)

\* Mutant: the field map is sent bare, without the outer key.
EnvelopeKey_Bare(k, m) == "none"

\* The single top-level key of a request body: map[string]Site{"site": site}
\* and map[string]Device{"device": device} for create and update; GET and
\* DELETE have no body.
EnvelopeKey(k, m) == IF m \in {"POST", "PATCH"} THEN k ELSE "none"

\* The provider has built no client.
NoClient == [Token |-> NULL, BaseURL |-> NULL]

defaultBaseURL == "https://towerops.net"

\* Mutant: the base URL passed in is ignored.
NewClient_AlwaysDefault(token, baseURL) ==
    [Token |-> token, BaseURL |-> defaultBaseURL]

\* NewClient: an empty base URL is replaced by the default one.
NewClient(token, baseURL) ==
    [Token |-> token,
     BaseURL |-> IF baseURL = "" THEN defaultBaseURL ELSE baseURL]

\* Mutant: the credential is left out of the request.
Headers_NoCredential(c) ==
    [Authorization |-> <<>>,
     ContentType   |-> "application/json",
     Accept        |-> "application/json"]

\* The headers doRequest sets on every request; Authorization is
\* "Bearer " followed by the client's token.
Headers(c) ==
    [Authorization |-> <<"Bearer", c.Token>>,
     ContentType   |-> "application/json",
     Accept        |-> "application/json"]

\* A remote call as issued by the client methods of the instance's kind:
\* method, the base URL and path of the request URL, the headers, the id
\* passed to the method, and the body: the field map (body) under the key
\* envelope.
Call(m, id, body) ==
    [method |-> m, base |-> client.BaseURL, path |-> PathOf(kind, m, id),
     headers |-> Headers(client), id |-> id,
     envelope |-> EnvelopeKey(kind, m), body |-> body]

\* The nil body of GET and DELETE.
NilBody == [nil |-> TRUE]

----------------------------------------------------------------------------
(* Declared configurations and the plans the schema derives from them.     *)

\* No configuration: what Read, Delete and a deletion out of band are given.
NoConfig(k) == [f \in FieldsOf(k) \ {"id", "inserted_at"} |-> NULL]

\* Values of the two value families a configuration or a response is built
\* of.  Family 2 holds the zero value of the community string, of the
\* description and of the port (the empty string, 0) and false for the
\* flags.
Fam(f, v) ==
    CASE f = "site_id"            -> IF v = 1 THEN "s1" ELSE "s2"
      [] f = "organization_id"    -> IF v = 1 THEN "o1" ELSE "o2"
      [] f = "ip_address"         -> IF v = 1 THEN "ip1" ELSE "ip2"
      [] f = "inserted_at"        -> IF v = 1 THEN "t1" ELSE "t2"
      [] f \in BoolFields         -> IF v = 1 THEN "true" ELSE "false"
      [] f = "snmp_version"       -> IF v = 1 THEN "2c" ELSE "3"
      [] f = "snmp_port"          -> IF v = 1 THEN "161" ELSE "0"
      [] f \in {"description", "snmp_community"}
                                  -> IF v = 1 THEN "a" ELSE ""
      [] f \in V3Fields           -> IF v = 1 THEN "x" ELSE "y"
      [] OTHER                    -> IF v = 1 THEN "a" ELSE "b"

Families == {1, 2}

\* The three ways a configuration can declare an optional attribute.
Presence == {"absent", "null", "value"}

\* The value the handlers read for an attribute declared in way p with
\* value v: types.String and the other value types hold null for an
\* attribute that is not set and for one that is set to null alike.
Declare(p, v) == IF p = "value" THEN v ELSE NULL

\* The optional attributes of a kind.
OptionalFields(k) ==
    IF k = "site" THEN {"location", "snmp_community"} ELSE DevicePtrFields

\* A configuration: the fields in o are not configured, the others hold the
\* values of family v.
SiteConfig(v, o) ==
    [f \in {"name", "location", "snmp_community"} |->
        IF f \in o THEN NULL ELSE Fam(f, v)]

SiteConfigs ==
    { SiteConfig(1, o) : o \in { {}, {"location"}, {"location", "snmp_community"} } }
      \cup { SiteConfig(2, {}) }

DeviceConfig(v, o) ==
    [f \in DeviceFields \ {"id", "inserted_at"} |->
        IF f \in o THEN NULL ELSE Fam(f, v)]

DeviceConfigs ==
    { DeviceConfig(1, o) :
        o \in { {}, {"organization_id"}, {"site_id"},
                DevicePtrFields \ {"site_id"} } }
      \cup { DeviceConfig(2, {"organization_id"}) }

\* Mutant: the default SNMP port is the trap port.
Default_TrapPort(f) ==
    CASE f = "monitoring_enabled" -> "true"
      [] f = "snmp_enabled"       -> "true"
      [] f = "snmp_version"       -> "2c"
      [] f = "snmp_port"          -> "162"

\* booldefault.StaticBool(true), stringdefault.StaticString("2c"),
\* int64default.StaticInt64(161)
Default(f) ==
    CASE f = "monitoring_enabled" -> "true"
      [] f = "snmp_enabled"       -> "true"
      [] f = "snmp_version"       -> "2c"
      [] f = "snmp_port"          -> "161"

\* The planned site: id and inserted_at are computed; UseStateForUnknown
\* carries them over from the prior state when there is one.
SitePlan(cfg, st, creating) ==
    [f \in SiteFields |->
        IF f \in {"id", "inserted_at"}
        THEN (IF creating THEN UNKNOWN ELSE st[f])
        ELSE cfg[f]]

\* Mutant: no planned change requires replacement.
RequiresReplace_Never(cfgv, statev) == FALSE

\* RequiresReplace: a planned value that differs from the state's value
\* replaces the resource instead of updating it.
RequiresReplace(cfgv, statev) == cfgv # NULL /\ cfgv # statev

\* The proposed new state of a Bound device: the configuration on top of the
\* prior state, with the schema defaults for the unset defaulted fields, the
\* prior value for the other unset computed fields and null for the unset
\* optional ones.  Update is planned only when it differs from the state.
DeviceProposed(cfg, st) ==
    [f \in DeviceFields |->
        CASE f \in {"id", "inserted_at"} -> st[f]
          [] cfg[f] # NULL -> cfg[f]
          [] f \in DefaultedFields -> Default(f)
          [] f \in ParentFields \cup {"name"} -> st[f]
          [] OTHER -> NULL]

\* The plan the handlers read.  An unset name is unknown (computed, no
\* plan modifier); an unset parent is planned at the state's value.
DevicePlan(cfg, st, creating) ==
    [f \in DeviceFields |->
        CASE f \in {"id", "inserted_at"} ->
                (IF creating THEN UNKNOWN ELSE st[f])
          [] f \in ParentFields ->
                (IF cfg[f] # NULL THEN cfg[f]
                 ELSE IF creating THEN UNKNOWN ELSE st[f])
          [] f \in DefaultedFields ->
                (IF cfg[f] = NULL THEN Default(f) ELSE cfg[f])
          [] f = "name" ->
                (IF cfg[f] = NULL THEN UNKNOWN ELSE cfg[f])
          [] OTHER -> cfg[f]]

----------------------------------------------------------------------------
(* Replies of the remote system.                                           *)

\* A decoded response: the pointer members in o are nil (omitted by the
\* remote system), the other members hold the values of family v.
SiteObj(id, v, o) ==
    [f \in SiteFields |->
        IF f = "id" THEN id ELSE IF f \in o THEN NULL ELSE Fam(f, v)]

SiteObjs(id) ==
    { SiteObj(id, 1, o) :
        o \in { {}, {"location"}, {"snmp_community"}, {"location", "snmp_community"} } }
      \cup { SiteObj(id, 2, {}) }

DeviceObj(id, v, o) ==
    [f \in DeviceFields |->
        IF f = "id" THEN id ELSE IF f \in o THEN NULL ELSE Fam(f, v)]

\* A decoded response that differs from family 1 in the SNMP port only: the
\* remote system reports another port than the default.
DeviceObjPort(id) ==
    [DeviceObj(id, 1, V3Fields \cup {"organization_id", "description"})
        EXCEPT !["snmp_port"] = Fam("snmp_port", 2)]

DeviceObjs(id) ==
    { DeviceObj(id, 1, o) :
        o \in { {"organization_id"}, DevicePtrFields } }
      \cup { DeviceObj(id, 2, {"organization_id"}), DeviceObjPort(id) }

Objs(k, id) == IF k = "site" THEN SiteObjs(id) ELSE DeviceObjs(id)

\* Replies of a remote system that fails: no connection, an internal error,
\* or a success status with a body that is not JSON.  None when ~faulty.
FailureReplies(k, ok) ==
    IF faulty
    THEN { Reply(TRUE, 0, FALSE, NullObj(k)),
           Reply(FALSE, 500, FALSE, NullObj(k)),
           Reply(FALSE, ok, FALSE, NullObj(k)) }
    ELSE {}

\* The bodies of a validation error: the errors map alone, the error string
\* with the errors map, and a JSON object with neither.
ValidationBodies ==
    { ErrorBody(TRUE, "", {<<"ip_address", "is invalid">>}, "{errors}"),
      ErrorBody(TRUE, "rejected", {<<"ip_address", "is invalid">>},
                "{error,errors}"),
      ErrorBody(TRUE, "", {}, "{}") }

\* The replies to a payload the remote system does not accept (a validation
\* error).  None when ~faulty.
InvalidReplies(k) ==
    IF faulty
    THEN { Reply(FALSE, 422, TRUE, NullObj(k)) }
           \cup { ErrorReply(k, 422, b) : b \in ValidationBodies }
    ELSE {}

\* A status below 400 other than the one the API documents for the call.
OffStatus(ok) == IF ok = 200 THEN 201 ELSE 200

\* Replies of a remote system that performs the request and answers with
\* another status below 400 than the documented one.  None when ~faulty.
OffStatusReplies(k, ok, o) ==
    IF faulty THEN { Reply(FALSE, OffStatus(ok), TRUE, o) } ELSE {}

\* An id that the remote system reports in place of the one asked for.
ForeignId == "id-foreign"

\* Replies of a remote system that answers a GET or PATCH with an object
\* under another id.  None when ~faulty.
ForeignIdReplies(k) ==
    IF faulty
    THEN { Reply(FALSE, 200, TRUE, IF k = "site" THEN SiteObj(ForeignId, 1, {})
                                                ELSE DeviceObj(ForeignId, 1, {})) }
    ELSE {}

NotFoundReply(k) == Reply(FALSE, 404, TRUE, NullObj(k))

\* Replies of a remote system that creates the object and answers 201 with
\* a body that has no id member: the decoded ID is the empty string.  None
\* when ~idless.
NoIdReplies(k) ==
    IF idless
    THEN { Reply(FALSE, 201, TRUE, IF k = "site" THEN SiteObj("", 1, {})
                                                ELSE DeviceObj("", 1, {})) }
    ELSE {}

\* Replies to POST: the remote system assigns the next fresh id.
CreateReplies(k) ==
    { Reply(FALSE, 201, TRUE, o) : o \in Objs(k, IdOf(nextId)) }
      \cup FailureReplies(k, 201)
      \cup InvalidReplies(k)
      \cup OffStatusReplies(k, 201, IF k = "site" THEN SiteObj(IdOf(nextId), 1, {})
                                                  ELSE DeviceObj(IdOf(nextId), 1, {}))
      \cup (IF faulty THEN { NotFoundReply(k) } ELSE {})
      \cup NoIdReplies(k)

\* Replies to GET and PATCH on an id: 404 exactly when the object is gone.
ObjReplies(k, id) ==
    IF id \notin remote
    THEN { NotFoundReply(k) } \cup FailureReplies(k, 404)
    ELSE { Reply(FALSE, 200, TRUE, o) : o \in Objs(k, id) }
           \cup FailureReplies(k, 200)
           \cup OffStatusReplies(k, 200, IF k = "site" THEN SiteObj(id, 1, {})
                                                    ELSE DeviceObj(id, 1, {}))
           \cup ForeignIdReplies(k)

\* Replies to DELETE on an id.
DeleteReplies(k, id) ==
    IF id \notin remote
    THEN { NotFoundReply(k) } \cup FailureReplies(k, 404)
    ELSE { Reply(FALSE, 204, TRUE, NullObj(k)) }
           \cup FailureReplies(k, 204)
           \cup OffStatusReplies(k, 204, NullObj(k))

\* The remote system performed the request.
Accepted(reply) == ~reply.transport /\ reply.status < 400

----------------------------------------------------------------------------
(* Site handlers: payloads and merges of the response into the data.       *)

\* The Site built from the plan, in Create and in Update alike.
SitePayload(data) ==
    [name           |-> ValueOf("name", data.name),
     location       |-> IF ~IsNull(data.location)
                        THEN ValueOf("location", data.location) ELSE NULL,
     snmp_community |-> IF ~IsNull(data.snmp_community)
                        THEN ValueOf("snmp_community", data.snmp_community) ELSE NULL]

\* Mutant: Update sends the id in the body as well.
SiteUpdatePayload_WithId(data) ==
    [id             |-> ValueOf("id", data.id),
     name           |-> ValueOf("name", data.name),
     location       |-> IF ~IsNull(data.location)
                        THEN ValueOf("location", data.location) ELSE NULL,
     snmp_community |-> IF ~IsNull(data.snmp_community)
                        THEN ValueOf("snmp_community", data.snmp_community) ELSE NULL]

\* The Site that Update builds from the plan; the id is passed to
\* UpdateSite beside it.
SiteUpdatePayload(data) ==
    [name           |-> ValueOf("name", data.name),
     location       |-> IF ~IsNull(data.location)
                        THEN ValueOf("location", data.location) ELSE NULL,
     snmp_community |-> IF ~IsNull(data.snmp_community)
                        THEN ValueOf("snmp_community", data.snmp_community) ELSE NULL]

SiteCreateMerge(data, created) ==
    [id             |-> created.id,
     inserted_at    |-> created.inserted_at,
     name           |-> data.name,
     location       |-> IF created.location # NULL
                        THEN created.location ELSE data.location,
     snmp_community |-> IF created.snmp_community # NULL
                        THEN created.snmp_community ELSE data.snmp_community]

\* Mutant: Read keeps the cached location and community when the remote
\* system omits them.
SiteReadMerge_KeepsOmitted(data, site) ==
    [id             |-> data.id,
     name           |-> site.name,
     inserted_at    |-> site.inserted_at,
     location       |-> IF site.location # NULL
                        THEN site.location ELSE data.location,
     snmp_community |-> IF site.snmp_community # NULL
                        THEN site.snmp_community ELSE data.snmp_community]

\* Mutant: Read takes the id from the response as well.
SiteReadMerge_IdFromResponse(data, site) ==
    [id             |-> site.id,
     name           |-> site.name,
     inserted_at    |-> site.inserted_at,
     location       |-> site.location,
     snmp_community |-> site.snmp_community]

SiteReadMerge(data, site) ==
    [id             |-> data.id,
     name           |-> site.name,
     inserted_at    |-> site.inserted_at,
     location       |-> site.location,
     snmp_community |-> site.snmp_community]

\* Mutant: the recreate path of the site keeps the stale id of the plan.
SiteRecreateMerge_KeepsId(data, created) ==
    [id             |-> data.id,
     inserted_at    |-> created.inserted_at,
     name           |-> created.name,
     location       |-> IF created.location # NULL
                        THEN created.location ELSE data.location,
     snmp_community |-> IF created.snmp_community # NULL
                        THEN created.snmp_community ELSE data.snmp_community]

SiteRecreateMerge(data, created) ==
    [id             |-> created.id,
     inserted_at    |-> created.inserted_at,
     name           |-> created.name,
     location       |-> IF created.location # NULL
                        THEN created.location ELSE data.location,
     snmp_community |-> IF created.snmp_community # NULL
                        THEN created.snmp_community ELSE data.snmp_community]

\* Mutant: Update keeps the planned name, as Create does.
SiteUpdateMerge_KeepsName(data, updated) ==
    [id             |-> data.id,
     inserted_at    |-> data.inserted_at,
     name           |-> data.name,
     location       |-> IF updated.location # NULL
                        THEN updated.location ELSE data.location,
     snmp_community |-> IF updated.snmp_community # NULL
                        THEN updated.snmp_community ELSE data.snmp_community]

SiteUpdateMerge(data, updated) ==
    [id             |-> data.id,
     inserted_at    |-> data.inserted_at,
     name           |-> updated.name,
     location       |-> IF updated.location # NULL
                        THEN updated.location ELSE data.location,
     snmp_community |-> IF updated.snmp_community # NULL
                        THEN updated.snmp_community ELSE data.snmp_community]

----------------------------------------------------------------------------
(* Device handlers: payloads and merges of the response into the data.     *)

\* Mutant: a member that holds the zero value of its type (the empty
\* string, false, 0) is left out like a nil one.
DevicePayload_DropsZero(data) ==
    [f \in DeviceFields \ {"id", "inserted_at"} |->
        IF f = "ip_address" THEN ValueOf(f, data[f])
        ELSE IF ~IsNull(data[f]) /\ ValueOf(f, data[f]) \notin {"", "false", "0"}
             THEN ValueOf(f, data[f]) ELSE NULL]

\* The Device built from the plan, in Create and in Update alike: ip_address
\* always, every other member only when the planned value is not null.
DevicePayload(data) ==
    [f \in DeviceFields \ {"id", "inserted_at"} |->
        IF f = "ip_address" THEN ValueOf(f, data[f])
        ELSE IF ~IsNull(data[f]) THEN ValueOf(f, data[f]) ELSE NULL]

\* The Device that Update builds from the plan; the id is passed to
\* UpdateDevice beside it.
DeviceUpdatePayload(data) ==
    [f \in DeviceFields \ {"id", "inserted_at"} |->
        IF f = "ip_address" THEN ValueOf(f, data[f])
        ELSE IF ~IsNull(data[f]) THEN ValueOf(f, data[f]) ELSE NULL]

DeviceCreateMerge(data, created) ==
    [f \in DeviceFields |->
        CASE f \in {"id", "inserted_at"} -> created[f]
          [] f \in ParentFields -> created[f]
          [] f \in {"name", "monitoring_enabled", "snmp_enabled"} ->
                (IF created[f] # NULL THEN created[f] ELSE data[f])
          [] OTHER -> data[f]]

\* Mutant: Read fills an omitted name from the cached description.
DeviceReadMerge_NameFromDescription(data, device) ==
    [f \in DeviceFields |->
        CASE f = "id" -> data[f]
          [] f \in ParentFields -> device[f]
          [] f = "name" ->
                (IF device[f] # NULL THEN device[f] ELSE data["description"])
          [] f \in {"ip_address", "inserted_at", "description"} -> device[f]
          [] f \in DefaultedFields ->
                (IF device[f] # NULL THEN device[f] ELSE data[f])
          [] f \in V3Fields -> device[f]]

DeviceReadMerge(data, device) ==
    [f \in DeviceFields |->
        CASE f = "id" -> data[f]
          [] f \in ParentFields -> device[f]
          [] f \in {"ip_address", "inserted_at", "name", "description"} -> device[f]
          [] f \in DefaultedFields ->
                (IF device[f] # NULL THEN device[f] ELSE data[f])
          [] f \in V3Fields -> device[f]]

\* Mutant: the recreate path keeps the stale id of the plan.
DeviceRecreateMerge_KeepsId(data, created) ==
    [f \in DeviceFields |->
        CASE f = "id" -> data[f]
          [] f \in {"inserted_at", "ip_address"} -> created[f]
          [] f \in ParentFields -> created[f]
          [] f \in {"name", "description"} \cup DefaultedFields ->
                (IF created[f] # NULL THEN created[f] ELSE data[f])
          [] f \in V3Fields -> data[f]]

DeviceRecreateMerge(data, created) ==
    [f \in DeviceFields |->
        CASE f \in {"id", "inserted_at", "ip_address"} -> created[f]
          [] f \in ParentFields -> created[f]
          [] f \in {"name", "description"} \cup DefaultedFields ->
                (IF created[f] # NULL THEN created[f] ELSE data[f])
          [] f \in V3Fields -> data[f]]

DeviceUpdateMerge(data, updated) ==
    [f \in DeviceFields |->
        CASE f \in {"id", "inserted_at"} -> data[f]
          [] f = "ip_address" -> updated[f]
          [] f \in ParentFields -> updated[f]
          [] f \in {"name", "description"} \cup DefaultedFields ->
                (IF updated[f] # NULL THEN updated[f] ELSE data[f])
          [] f \in V3Fields -> updated[f]]

----------------------------------------------------------------------------
(* What a handler leaves behind.                                           *)

\* Mutant: the handler writes the planned data to the state before it
\* reports the error.
Fail_SavesPlan(op, out, summary, err, data) ==
    /\ lastOp' = op
    /\ outcome' = out
    /\ diag' = summary
    /\ lastErr' = err
    /\ lastResp' = NullObj(kind)
    /\ plan' = data
    /\ refreshes' = 0
    /\ UNCHANGED <<boundId, stale>>
    /\ state' = data
    /\ lifecycle' = "Bound"

\* Mutant: a handler that fails drops the state.
Fail_DropsState(op, out, summary, err, data) ==
    /\ lastOp' = op
    /\ outcome' = out
    /\ diag' = summary
    /\ lastErr' = err
    /\ lastResp' = NullObj(kind)
    /\ plan' = data
    /\ refreshes' = 0
    /\ UNCHANGED <<boundId, stale>>
    /\ state' = NullObj(kind)
    /\ lifecycle' = "Destroyed"

\* resp.Diagnostics.AddError(summary, err.Error()); the state is not written.
Fail(op, out, summary, err, data) ==
    /\ lastOp' = op
    /\ outcome' = out
    /\ diag' = summary
    /\ lastErr' = err
    /\ lastResp' = NullObj(kind)
    /\ plan' = data
    /\ refreshes' = 0
    /\ UNCHANGED <<state, lifecycle, boundId, stale>>

\* resp.State.Set(ctx, &data) with no error reported.
Save(op, out, newState, res, data) ==
    /\ lastOp' = op
    /\ outcome' = out
    /\ diag' = ""
    /\ lastErr' = NoErr
    /\ lastResp' = res
    /\ plan' = data
    /\ refreshes' = IF op # "Read" THEN 0
                    ELSE IF lastOp = "Read" /\ outcome = "ok" /\ lastResp = res
                         THEN 2 ELSE 1
    /\ boundId' = IF op = "Create" \/ out = "recreated" THEN res.id
                  ELSE IF op = "Import" THEN newState.id ELSE boundId
    /\ stale' = IF out = "recreated" THEN stale \cup {boundId} ELSE stale
    /\ state' = newState
    /\ lifecycle' = "Bound"

\* resp.State.RemoveResource(ctx), or a Delete that returns without error.
Remove(op, out, newLifecycle) ==
    /\ lastOp' = op
    /\ outcome' = out
    /\ diag' = ""
    /\ lastErr' = IF op = "Read" THEN ErrNotFound ELSE NoErr
    /\ lastResp' = NullObj(kind)
    /\ plan' = NullObj(kind)
    /\ refreshes' = 0
    /\ boundId' = NULL
    /\ stale' = stale
    /\ state' = NullObj(kind)
    /\ lifecycle' = newLifecycle

\* The remote system's side of a POST.
ServerCreate(reply) ==
    IF Accepted(reply)
    THEN remote' = remote \cup {IdOf(nextId)} /\ nextId' = nextId + 1
    ELSE UNCHANGED <<remote, nextId>>

CreateErrorSummary(k) == IF k = "site" THEN "Failed to create site" ELSE "Failed to create device"

ReadErrorSummary(k) == IF k = "site" THEN "Failed to read site" ELSE "Failed to read device"

UpdateErrorSummary(k) == IF k = "site" THEN "Failed to update site" ELSE "Failed to update device"

\* Mutant: a failed recreate is reported as a plain update failure.
RecreateErrorSummary_Plain(k) ==
    IF k = "site" THEN "Failed to update site" ELSE "Failed to update device"

RecreateErrorSummary(k) ==
    IF k = "site" THEN "Failed to create site (after 404 on update)"
    ELSE "Failed to create device (after 404 on update)"

DeleteErrorSummary(k) == IF k = "site" THEN "Failed to delete site" ELSE "Failed to delete device"

----------------------------------------------------------------------------
(* The handlers, one action each.                                           *)

SiteCreate ==
    /\ kind = "site"
    /\ client # NoClient
    /\ lifecycle \in {"Unbound", "Orphaned"}
    /\ nextId <= MaxId
    /\ \E cfg \in SiteConfigs, reply \in CreateReplies("site") :
         LET data == SitePlan(cfg, state, TRUE)
             body == SitePayload(data)
             r    == CreateSite(reply)
         IN  /\ declared' = cfg
             /\ calls' = <<Call("POST", "", body)>>
             /\ replies' = <<Received(reply)>>
             /\ errs' = <<r.err>>
             /\ ServerCreate(reply)
             /\ IF r.err # NoErr
                THEN Fail("Create", "error", CreateErrorSummary("site"), r.err, data)
                ELSE Save("Create", "ok", SiteCreateMerge(data, r.res), r.res, data)
    /\ UNCHANGED <<client, providerConfig, providerDiag, other, idless, kind, faulty>>

\* Mutant: Read repeats the GET once when it fails with an error other than
\* ErrNotFound.
SiteRead_Retries ==
    /\ kind = "site"
    /\ client # NoClient
    /\ lifecycle = "Bound"
    /\ \E first \in ObjReplies("site", state.id), reply \in ObjReplies("site", state.id) :
         LET r0    == GetSite(first)
             retry == r0.err # NoErr /\ ~IsNotFound(r0.err)
             r     == IF retry THEN GetSite(reply) ELSE r0
         IN  /\ (~retry => reply = first)
             /\ declared' = NoConfig(kind)
             /\ calls' = IF retry
                         THEN <<Call("GET", state.id, NilBody), Call("GET", state.id, NilBody)>>
                         ELSE <<Call("GET", state.id, NilBody)>>
             /\ replies' = IF retry THEN <<Received(first), Received(reply)>>
                                    ELSE <<Received(first)>>
             /\ errs' = IF retry THEN <<r0.err, r.err>> ELSE <<r0.err>>
             /\ IF r.err # NoErr
                THEN IF IsNotFound(r.err)
                     THEN Remove("Read", "removed", "Orphaned")
                     ELSE Fail("Read", "error", ReadErrorSummary("site"), r.err, NullObj("site"))
                ELSE Save("Read", "ok", SiteReadMerge(state, r.res), r.res, NullObj("site"))
    /\ UNCHANGED <<client, providerConfig, providerDiag, other, idless, kind, faulty, remote, nextId>>

SiteRead ==
    /\ kind = "site"
    /\ client # NoClient
    /\ lifecycle = "Bound"
    /\ \E reply \in ObjReplies("site", state.id) :
         LET r == GetSite(reply)
         IN  /\ declared' = NoConfig(kind)
             /\ calls' = <<Call("GET", state.id, NilBody)>>
             /\ replies' = <<Received(reply)>>
             /\ errs' = <<r.err>>
             /\ IF r.err # NoErr
                THEN IF IsNotFound(r.err)
                     THEN Remove("Read", "removed", "Orphaned")
                     ELSE Fail("Read", "error", ReadErrorSummary("site"), r.err, NullObj("site"))
                ELSE Save("Read", "ok", SiteReadMerge(state, r.res), r.res, NullObj("site"))
    /\ UNCHANGED <<client, providerConfig, providerDiag, other, idless, kind, faulty, remote, nextId>>

SiteUpdate ==
    /\ kind = "site"
    /\ client # NoClient
    /\ lifecycle = "Bound"
    /\ \E cfg \in SiteConfigs, reply \in ObjReplies("site", state.id) :
         LET data == SitePlan(cfg, state, FALSE)
             body == SiteUpdatePayload(data)
             r    == UpdateSite(reply)
         IN  /\ data # state
             /\ declared' = cfg
             /\ IF r.err # NoErr
                THEN IF IsNotFound(r.err)
                     THEN /\ nextId <= MaxId
                          /\ \E creply \in CreateReplies("site") :
                               LET c == CreateSite(creply)
                               IN  /\ calls' = <<Call("PATCH", data.id, body),
                                                 Call("POST", "", body)>>
                                   /\ replies' = <<Received(reply), Received(creply)>>
                                   /\ errs' = <<r.err, c.err>>
                                   /\ ServerCreate(creply)
                                   /\ IF c.err # NoErr
                                      THEN Fail("Update", "recreate_failed",
                                                RecreateErrorSummary("site"), c.err, data)
                                      ELSE Save("Update", "recreated",
                                                SiteRecreateMerge(data, c.res), c.res, data)
                     ELSE /\ calls' = <<Call("PATCH", data.id, body)>>
                          /\ replies' = <<Received(reply)>>
                          /\ errs' = <<r.err>>
                          /\ Fail("Update", "error", UpdateErrorSummary("site"), r.err, data)
                          /\ UNCHANGED <<remote, nextId>>
                ELSE /\ calls' = <<Call("PATCH", data.id, body)>>
                     /\ replies' = <<Received(reply)>>
                     /\ errs' = <<r.err>>
                     /\ Save("Update", "ok", SiteUpdateMerge(data, r.res), r.res, data)
                     /\ UNCHANGED <<remote, nextId>>
    /\ UNCHANGED <<client, providerConfig, providerDiag, other, idless, kind, faulty>>

SiteDelete ==
    /\ kind = "site"
    /\ client # NoClient
    /\ lifecycle = "Bound"
    /\ \E reply \in DeleteReplies("site", state.id) :
         LET err == DeleteSite(reply)
         IN  /\ declared' = NoConfig(kind)
             /\ calls' = <<Call("DELETE", state.id, NilBody)>>
             /\ replies' = <<Received(reply)>>
             /\ errs' = <<err>>
             /\ remote' = IF Accepted(reply) THEN remote \ {state.id} ELSE remote
             /\ IF err # NoErr
                THEN Fail("Delete", "error", DeleteErrorSummary("site"), err, NullObj("site"))
                ELSE Remove("Delete", "ok", "Destroyed")
    /\ UNCHANGED <<client, providerConfig, providerDiag, other, idless, kind, faulty, nextId>>

DeviceCreate ==
    /\ kind = "device"
    /\ client # NoClient
    /\ lifecycle \in {"Unbound", "Orphaned"}
    /\ nextId <= MaxId
    /\ \E cfg \in DeviceConfigs, reply \in CreateReplies("device") :
         LET data == DevicePlan(cfg, state, TRUE)
             body == DevicePayload(data)
             r    == CreateDevice(reply)
         IN  /\ declared' = cfg
             /\ calls' = <<Call("POST", "", body)>>
             /\ replies' = <<Received(reply)>>
             /\ errs' = <<r.err>>
             /\ ServerCreate(reply)
             /\ IF r.err # NoErr
                THEN Fail("Create", "error", CreateErrorSummary("device"), r.err, data)
                ELSE Save("Create", "ok", DeviceCreateMerge(data, r.res), r.res, data)
    /\ UNCHANGED <<client, providerConfig, providerDiag, other, idless, kind, faulty>>

DeviceRead ==
    /\ kind = "device"
    /\ client # NoClient
    /\ lifecycle = "Bound"
    /\ \E reply \in ObjReplies("device", state.id) :
         LET r == GetDevice(reply)
         IN  /\ declared' = NoConfig(kind)
             /\ calls' = <<Call("GET", state.id, NilBody)>>
             /\ replies' = <<Received(reply)>>
             /\ errs' = <<r.err>>
             /\ IF r.err # NoErr
                THEN IF IsNotFound(r.err)
                     THEN Remove("Read", "removed", "Orphaned")
                     ELSE Fail("Read", "error", ReadErrorSummary("device"), r.err, NullObj("device"))
                ELSE Save("Read", "ok", DeviceReadMerge(state, r.res), r.res, NullObj("device"))
    /\ UNCHANGED <<client, providerConfig, providerDiag, other, idless, kind, faulty, remote, nextId>>

DeviceUpdate ==
    /\ kind = "device"
    /\ client # NoClient
    /\ lifecycle = "Bound"
    /\ \E cfg \in DeviceConfigs, reply \in ObjReplies("device", state.id) :
         LET data == DevicePlan(cfg, state, FALSE)
             body == DeviceUpdatePayload(data)
             r    == UpdateDevice(reply)
         IN  /\ \A f \in ParentFields : ~RequiresReplace(cfg[f], state[f])
             /\ DeviceProposed(cfg, state) # state
             /\ declared' = cfg
             /\ IF r.err # NoErr
                THEN IF IsNotFound(r.err)
                     THEN /\ nextId <= MaxId
                          /\ \E creply \in CreateReplies("device") :
                               LET c == CreateDevice(creply)
                               IN  /\ calls' = <<Call("PATCH", data.id, body),
                                                 Call("POST", "", body)>>
                                   /\ replies' = <<Received(reply), Received(creply)>>
                                   /\ errs' = <<r.err, c.err>>
                                   /\ ServerCreate(creply)
                                   /\ IF c.err # NoErr
                                      THEN Fail("Update", "recreate_failed",
                                                RecreateErrorSummary("device"), c.err, data)
                                      ELSE Save("Update", "recreated",
                                                DeviceRecreateMerge(data, c.res), c.res, data)
                     ELSE /\ calls' = <<Call("PATCH", data.id, body)>>
                          /\ replies' = <<Received(reply)>>
                          /\ errs' = <<r.err>>
                          /\ Fail("Update", "error", UpdateErrorSummary("device"), r.err, data)
                          /\ UNCHANGED <<remote, nextId>>
                ELSE /\ calls' = <<Call("PATCH", data.id, body)>>
                     /\ replies' = <<Received(reply)>>
                     /\ errs' = <<r.err>>
                     /\ Save("Update", "ok", DeviceUpdateMerge(data, r.res), r.res, data)
                     /\ UNCHANGED <<remote, nextId>>
    /\ UNCHANGED <<client, providerConfig, providerDiag, other, idless, kind, faulty>>

DeviceDelete ==
    /\ kind = "device"
    /\ client # NoClient
    /\ lifecycle = "Bound"
    /\ \E reply \in DeleteReplies("device", state.id) :
         LET err == DeleteDevice(reply)
         IN  /\ declared' = NoConfig(kind)
             /\ calls' = <<Call("DELETE", state.id, NilBody)>>
             /\ replies' = <<Received(reply)>>
             /\ errs' = <<err>>
             /\ remote' = IF Accepted(reply) THEN remote \ {state.id} ELSE remote
             /\ IF err # NoErr
                THEN Fail("Delete", "error", DeleteErrorSummary("device"), err, NullObj("device"))
                ELSE Remove("Delete", "ok", "Destroyed")
    /\ UNCHANGED <<client, providerConfig, providerDiag, other, idless, kind, faulty, nextId>>

\* A declared change of site_id or organization_id: the plan is flagged for
\* replacement and the apply destroys the device with Delete; the create
\* that follows is DeviceCreate on the then Unbound instance.
DeviceReplace ==
    /\ kind = "device"
    /\ client # NoClient
    /\ lifecycle = "Bound"
    /\ \E cfg \in DeviceConfigs, reply \in DeleteReplies("device", state.id) :
         LET err == DeleteDevice(reply)
         IN  /\ \E f \in ParentFields : RequiresReplace(cfg[f], state[f])
             /\ declared' = cfg
             /\ calls' = <<Call("DELETE", state.id, NilBody)>>
             /\ replies' = <<Received(reply)>>
             /\ errs' = <<err>>
             /\ remote' = IF Accepted(reply) THEN remote \ {state.id} ELSE remote
             /\ IF err # NoErr
                THEN Fail("Delete", "error", DeleteErrorSummary("device"), err, NullObj("device"))
                ELSE Remove("Delete", "replacing", "Unbound")
    /\ UNCHANGED <<client, providerConfig, providerDiag, other, idless, kind, faulty, nextId>>

\* An id that no remote object has.
AbsentId == "id-absent"

\* Ids presented to import: those of the remote objects that the second
\* instance is not bound to, and AbsentId.
ImportIds ==
    (remote \ (IF other = NoInstance THEN {} ELSE {other.boundId}))
        \cup {AbsentId}

\* The state ImportStatePassthroughID writes: the id, every other attribute
\* null.
Imported(k, id) == [NullObj(k) EXCEPT !.id = id]

\* Import of a site: ImportState passes the id through and the framework
\* reads the instance with Read; the state is kept only when Read saved
\* one (a Read that removed the state fails the import).
SiteImport ==
    /\ kind = "site"
    /\ client # NoClient
    /\ lifecycle \in {"Unbound", "Orphaned"}
    /\ \E id \in ImportIds :
         \E reply \in ObjReplies("site", id) :
           LET data == Imported("site", id)
               r    == GetSite(reply)
           IN  /\ declared' = NoConfig(kind)
               /\ calls' = <<Call("GET", id, NilBody)>>
               /\ replies' = <<Received(reply)>>
               /\ errs' = <<r.err>>
               /\ IF r.err # NoErr
                  THEN IF IsNotFound(r.err)
                       THEN Fail("Import", "removed", "", r.err, NullObj("site"))
                       ELSE Fail("Import", "error", ReadErrorSummary("site"), r.err, NullObj("site"))
                  ELSE Save("Import", "ok", SiteReadMerge(data, r.res), r.res, NullObj("site"))
    /\ UNCHANGED <<client, providerConfig, providerDiag, other, idless, kind, faulty, remote, nextId>>

\* Import of a device.
DeviceImport ==
    /\ kind = "device"
    /\ client # NoClient
    /\ lifecycle \in {"Unbound", "Orphaned"}
    /\ \E id \in ImportIds :
         \E reply \in ObjReplies("device", id) :
           LET data == Imported("device", id)
               r    == GetDevice(reply)
           IN  /\ declared' = NoConfig(kind)
               /\ calls' = <<Call("GET", id, NilBody)>>
               /\ replies' = <<Received(reply)>>
               /\ errs' = <<r.err>>
               /\ IF r.err # NoErr
                  THEN IF IsNotFound(r.err)
                       THEN Fail("Import", "removed", "", r.err, NullObj("device"))
                       ELSE Fail("Import", "error", ReadErrorSummary("device"), r.err, NullObj("device"))
                  ELSE Save("Import", "ok", DeviceReadMerge(data, r.res), r.res, NullObj("device"))
    /\ UNCHANGED <<client, providerConfig, providerDiag, other, idless, kind, faulty, remote, nextId>>

\* The remote object of the instance is deleted behind the provider's back.
OutOfBandDelete ==
    /\ lifecycle = "Bound"
    /\ state.id \in remote
    /\ remote' = remote \ {state.id}
    /\ lastOp' = "OutOfBand"
    /\ outcome' = "ok"
    /\ declared' = NoConfig(kind)
    /\ calls' = <<>>
    /\ replies' = <<>>
    /\ errs' = <<>>
    /\ diag' = ""
    /\ lastErr' = NoErr
    /\ lastResp' = NullObj(kind)
    /\ plan' = NullObj(kind)
    /\ refreshes' = 0
    /\ UNCHANGED <<client, providerConfig, providerDiag, other, idless, kind, faulty, lifecycle, state, nextId, boundId, stale>>

----------------------------------------------------------------------------
(* Provider configuration.                                                 *)

\* The process environment: TOWEROPS_TOKEN is set.
Environ == [TOWEROPS_TOKEN |-> "envtok"]

\* Values of the provider block's token attribute.
TokenValues == {NULL, UNKNOWN, "", "tok1", "tok2"}

\* Values of the provider block's api_url attribute ("" when it is not set).
ApiUrls == {"", "https://custom.example.com"}

ProviderConfigs == [token : TokenValues, api_url : ApiUrls]

\* No provider block has been presented yet.
NoProviderConfig == [token |-> "<none>", api_url |-> "<none>"]

\* Mutant: only an unknown or null token is rejected; the empty string
\* is passed on to NewClient.
ProviderConfigure_AcceptsEmpty ==
    /\ client = NoClient
    /\ \E config \in ProviderConfigs :
         /\ providerConfig' = config
         /\ IF config.token = UNKNOWN
            THEN /\ providerDiag' = "Unknown TowerOps API Token"
                 /\ client' = client
            ELSE IF IsNull(config.token)
            THEN /\ providerDiag' = "Missing TowerOps API Token"
                 /\ client' = client
            ELSE /\ providerDiag' = ""
                 /\ client' = NewClient(ValueOf("token", config.token), config.api_url)
    /\ UNCHANGED <<other, idless, kind, faulty, lifecycle, state, remote, nextId,
                   lastOp, outcome, calls, replies, errs, diag, lastErr,
                   lastResp, plan, declared, refreshes, boundId, stale>>

\* ToweropsProvider.Configure: an unknown token and a null or empty token
\* are each reported and end the run without a client; otherwise the client
\* is built and handed to the resources.
ProviderConfigure ==
    /\ client = NoClient
    /\ \E config \in ProviderConfigs :
         /\ providerConfig' = config
         /\ IF config.token = UNKNOWN
            THEN /\ providerDiag' = "Unknown TowerOps API Token"
                 /\ client' = client
            ELSE IF IsNull(config.token) \/ ValueOf("token", config.token) = ""
            THEN /\ providerDiag' = "Missing TowerOps API Token"
                 /\ client' = client
            ELSE /\ providerDiag' = ""
                 /\ client' = NewClient(ValueOf("token", config.token), config.api_url)
    /\ UNCHANGED <<other, idless, kind, faulty, lifecycle, state, remote, nextId,
                   lastOp, outcome, calls, replies, errs, diag, lastErr,
                   lastResp, plan, declared, refreshes, boundId, stale>>

\* The provider block of an instance whose provider has been configured.
TestProviderConfig == [token |-> "tok1", api_url |-> ""]

Init ==
    /\ kind \in {"site", "device"}
    /\ faulty = TRUE
    /\ idless = FALSE
    /\ lifecycle = "Unbound"
    /\ state = NullObj(kind)
    /\ remote = {}
    /\ nextId = 1
    /\ lastOp = "none"
    /\ outcome = "ok"
    /\ calls = <<>>
    /\ replies = <<>>
    /\ errs = <<>>
    /\ diag = ""
    /\ lastErr = NoErr
    /\ lastResp = NullObj(kind)
    /\ plan = NullObj(kind)
    /\ declared = NoConfig(kind)
    /\ refreshes = 0
    /\ boundId = NULL
    /\ stale = {}
    /\ providerConfig = TestProviderConfig
    /\ providerDiag = ""
    /\ client = NewClient(providerConfig.token, providerConfig.api_url)
    /\ other = NoInstance

Next ==
    \/ SiteCreate
    \/ SiteRead
    \/ SiteUpdate
    \/ SiteDelete
    \/ DeviceCreate
    \/ DeviceRead
    \/ DeviceUpdate
    \/ DeviceDelete
    \/ DeviceReplace
    \/ SiteImport
    \/ DeviceImport
    \/ OutOfBandDelete

Spec == Init /\ [][Next]_vars

\* A remote system that does not fail: every call is answered by the reply
\* its state dictates (404 exactly for an object that is gone).
InitHeal ==
    /\ kind \in {"site", "device"}
    /\ faulty = FALSE
    /\ idless = FALSE
    /\ lifecycle = "Unbound"
    /\ state = NullObj(kind)
    /\ remote = {}
    /\ nextId = 1
    /\ lastOp = "none"
    /\ outcome = "ok"
    /\ calls = <<>>
    /\ replies = <<>>
    /\ errs = <<>>
    /\ diag = ""
    /\ lastErr = NoErr
    /\ lastResp = NullObj(kind)
    /\ plan = NullObj(kind)
    /\ declared = NoConfig(kind)
    /\ refreshes = 0
    /\ boundId = NULL
    /\ stale = {}
    /\ providerConfig = TestProviderConfig
    /\ providerDiag = ""
    /\ client = NewClient(providerConfig.token, providerConfig.api_url)
    /\ other = NoInstance

\* A step of a reconciliation pass: Refresh, Apply-Create or Apply-Update.
Pass ==
    \/ SiteRead
    \/ SiteCreate
    \/ SiteUpdate
    \/ DeviceRead
    \/ DeviceCreate
    \/ DeviceUpdate

\* Reconciliation passes keep being run.
SpecHeal == InitHeal /\ [][Next]_vars /\ WF_vars(Pass)

\* The provider is not configured yet: Configure runs on a provider block
\* before any resource handler does.
InitProvider ==
    /\ kind \in {"site", "device"}
    /\ faulty = FALSE
    /\ idless = FALSE
    /\ lifecycle = "Unbound"
    /\ state = NullObj(kind)
    /\ remote = {}
    /\ nextId = 1
    /\ lastOp = "none"
    /\ outcome = "ok"
    /\ calls = <<>>
    /\ replies = <<>>
    /\ errs = <<>>
    /\ diag = ""
    /\ lastErr = NoErr
    /\ lastResp = NullObj(kind)
    /\ plan = NullObj(kind)
    /\ declared = NoConfig(kind)
    /\ refreshes = 0
    /\ boundId = NULL
    /\ stale = {}
    /\ client = NoClient
    /\ providerConfig = NoProviderConfig
    /\ providerDiag = ""
    /\ other = NoInstance

NextProvider ==
    \/ ProviderConfigure
    \/ Next

SpecProvider == InitProvider /\ [][NextProvider]_vars

----------------------------------------------------------------------------
(* Two resource instances on one client.                                   *)

\* The data of the instance in the variables that belongs to it alone: its
\* kind, its state and the ids it has held.
Instance ==
    [kind |-> kind, lifecycle |-> lifecycle, state |-> state,
     boundId |-> boundId, stale |-> stale]

\* An instance of kind k that nothing has been done to.
NewInstance(k) ==
    [kind |-> k, lifecycle |-> "Unbound", state |-> NullObj(k),
     boundId |-> NULL, stale |-> {}]

\* The next operation is on the other instance: the two instances change
\* places.  The client and the remote system are the same for both; the
\* record of the last handler run starts empty.
Swap ==
    /\ other # NoInstance
    /\ other' = Instance
    /\ kind' = other.kind
    /\ lifecycle' = other.lifecycle
    /\ state' = other.state
    /\ boundId' = other.boundId
    /\ stale' = other.stale
    /\ lastOp' = "none"
    /\ outcome' = "ok"
    /\ calls' = <<>>
    /\ replies' = <<>>
    /\ errs' = <<>>
    /\ diag' = ""
    /\ lastErr' = NoErr
    /\ lastResp' = NullObj(other.kind)
    /\ plan' = NullObj(other.kind)
    /\ declared' = NoConfig(other.kind)
    /\ refreshes' = 0
    /\ UNCHANGED <<client, providerConfig, providerDiag, idless, faulty, remote, nextId>>

InitPair ==
    /\ kind \in {"site", "device"}
    /\ faulty = FALSE
    /\ idless = FALSE
    /\ lifecycle = "Unbound"
    /\ state = NullObj(kind)
    /\ remote = {}
    /\ nextId = 1
    /\ lastOp = "none"
    /\ outcome = "ok"
    /\ calls = <<>>
    /\ replies = <<>>
    /\ errs = <<>>
    /\ diag = ""
    /\ lastErr = NoErr
    /\ lastResp = NullObj(kind)
    /\ plan = NullObj(kind)
    /\ declared = NoConfig(kind)
    /\ refreshes = 0
    /\ boundId = NULL
    /\ stale = {}
    /\ providerConfig = TestProviderConfig
    /\ providerDiag = ""
    /\ client = NewClient(providerConfig.token, providerConfig.api_url)
    /\ other = NewInstance("site")

NextPair ==
    \/ Swap
    \/ Next

SpecPair == InitPair /\ [][NextPair]_vars

\* A remote system that does not fail but may answer a create with a body
\* that has no id.
InitNoId ==
    /\ kind \in {"site", "device"}
    /\ faulty = FALSE
    /\ idless = TRUE
    /\ lifecycle = "Unbound"
    /\ state = NullObj(kind)
    /\ remote = {}
    /\ nextId = 1
    /\ lastOp = "none"
    /\ outcome = "ok"
    /\ calls = <<>>
    /\ replies = <<>>
    /\ errs = <<>>
    /\ diag = ""
    /\ lastErr = NoErr
    /\ lastResp = NullObj(kind)
    /\ plan = NullObj(kind)
    /\ declared = NoConfig(kind)
    /\ refreshes = 0
    /\ boundId = NULL
    /\ stale = {}
    /\ providerConfig = TestProviderConfig
    /\ providerDiag = ""
    /\ client = NewClient(providerConfig.token, providerConfig.api_url)
    /\ other = NoInstance

SpecNoId == InitNoId /\ [][Next]_vars

----------------------------------------------------------------------------
(* Properties.                                                             *)

\* C1 (recreate-on-missing): when the update call of Apply-Update on a Bound
\* instance with id D1 returns NotFound, the handler issues PATCH on D1 and
\* then exactly one POST carrying the same body; when that create succeeds
\* the state holds the id of the create response, which is not D1.
C1_RecreateOnMissing ==
    [][ (lastOp' = "Update" /\ outcome' \in {"recreated", "recreate_failed"})
        => /\ Len(calls') = 2
           /\ calls'[1].method = "PATCH"
           /\ calls'[1].id = state.id
           /\ calls'[2].method = "POST"
           /\ calls'[2].body = calls'[1].body
           /\ calls'[1].body = (IF kind = "site" THEN SitePayload(plan')
                                               ELSE DevicePayload(plan'))
           /\ (outcome' = "recreated"
                 => /\ lifecycle' = "Bound"
                    /\ state'.id = lastResp'.id
                    /\ state'.id # state.id) ]_vars

C1_Witness ==
    /\ lastOp = "Update"
    /\ outcome = "recreated"
    /\ kind = "device"
    /\ Len(calls) = 2
    /\ state.id = IdOf(2)

\* C2: when the update returns NotFound and the follow-up create fails, the
\* reported error is the compound one (not the plain update failure), the
\* create was the last call, and the state is left as it was.
C2_RecreateFailure ==
    [][ (lastOp' = "Update" /\ outcome' = "recreate_failed")
        => /\ diag' \in {"Failed to create site (after 404 on update)",
                         "Failed to create device (after 404 on update)"}
           /\ diag' # UpdateErrorSummary(kind)
           /\ lastErr' # NoErr
           /\ Len(calls') = 2
           /\ calls'[2].method = "POST"
           /\ state' = state
           /\ lifecycle' = lifecycle ]_vars

C2_Witness ==
    /\ lastOp = "Update"
    /\ outcome = "recreate_failed"
    /\ lastErr = APIErr(500)
    /\ lifecycle = "Bound"

\* C3 (delete is idempotent), as claimed: a Delete whose remote call returns
\* NotFound ends with the instance Destroyed and no error reported.
C3_DeleteIdempotent ==
    (lastOp = "Delete" /\ lastErr = ErrNotFound)
        => (lifecycle = "Destroyed" /\ diag = "")

\* C4: a Refresh whose read returns NotFound removes the state (the instance
\* is Orphaned) and reports no error.
C4_ReadNotFoundOrphans ==
    (lastOp = "Read" /\ lastErr = ErrNotFound)
        => /\ lifecycle = "Orphaned"
           /\ state = NullObj(kind)
           /\ diag = ""
           /\ Len(calls) = 1

C4_Witness ==
    /\ lastOp = "Read"
    /\ lastErr = ErrNotFound
    /\ lifecycle = "Orphaned"

\* C6: an Apply-Create whose create call fails reports the create error,
\* has issued that one POST only, and leaves the instance without state.
C6_CreateFailure ==
    [][ (lastOp' = "Create" /\ lastErr' # NoErr)
        => /\ diag' \in {"Failed to create site", "Failed to create device"}
           /\ Len(calls') = 1
           /\ calls'[1].method = "POST"
           /\ lifecycle' = lifecycle
           /\ lifecycle' \in {"Unbound", "Orphaned"}
           /\ state' = NullObj(kind) ]_vars

C6_Witness ==
    /\ lastOp = "Create"
    /\ lastErr = APIErr(500)
    /\ lifecycle = "Unbound"
    /\ state = NullObj(kind)

\* C5 (healing after out-of-band deletion): against a remote system that
\* accepts create calls, whenever the instance is Bound to an id that does
\* not exist remotely, repeated passes eventually leave it Bound to an id
\* that exists remotely; and no Read, Create or Update ends without error
\* with a state that references an object missing remotely.
C5_Healing ==
    /\ [][ (lastOp' \in {"Read", "Create", "Update"} /\ diag' = "")
            => IF lifecycle' = "Bound"
               THEN state'.id \in remote'
               ELSE state' = NullObj(kind) ]_vars
    /\ []( (lifecycle = "Bound" /\ state.id \notin remote /\ nextId <= MaxId)
            => <>(lifecycle = "Bound" /\ state.id \in remote) )

C5_Witness ==
    /\ ~faulty
    /\ lifecycle = "Bound"
    /\ lastOp \in {"Create", "Update"}
    /\ state.id = IdOf(2)
    /\ IdOf(2) \in remote
    /\ IdOf(1) \notin remote

\* C7, as claimed: after a successful Apply-Create the state holds the id
\* and inserted_at of the response and the server's value for every other
\* field the server returned; for a site the state equals the response.
C7_CreateEchoesServer ==
    (lastOp = "Create" /\ outcome = "ok")
        => /\ state.id = lastResp.id
           /\ state.inserted_at = lastResp.inserted_at
           /\ \A f \in FieldsOf(kind) : lastResp[f] # NULL => state[f] = lastResp[f]
           /\ (kind = "site" => state = lastResp)

\* C8, as claimed: after a successful Refresh every field of the state
\* other than id equals the value of the read response, omitted fields
\* included.
C8_ReadOverwritesAll ==
    (lastOp = "Read" /\ outcome = "ok")
        => \A f \in FieldsOf(kind) \ {"id"} : state[f] = lastResp[f]

\* C8, amended: after a successful Refresh the id is the one held before and
\* every other field equals the value of the read response (null when
\* omitted), except that a device's monitoring_enabled, snmp_enabled,
\* snmp_version and snmp_port keep the cached value when the response
\* omits them.
C8_ReadOverwrites ==
    [][ (lastOp' = "Read" /\ outcome' = "ok")
        => /\ state'.id = state.id
           /\ \A f \in FieldsOf(kind) \ {"id"} :
                 state'[f] = IF f \in DefaultedFields /\ lastResp'[f] = NULL
                             THEN state[f] ELSE lastResp'[f] ]_vars

C8_Witness ==
    /\ lastOp = "Read"
    /\ outcome = "ok"
    /\ kind = "device"
    /\ lastResp.snmp_port = NULL
    /\ state.snmp_port # NULL
    /\ lastResp.description = NULL
    /\ state.description = NULL

\* C9 (idempotent read): a successful Refresh that directly follows a
\* successful Refresh and gets the same response leaves the state as the
\* first one left it.
C9_IdempotentRead ==
    [][ (/\ lastOp = "Read" /\ outcome = "ok"
         /\ lastOp' = "Read" /\ outcome' = "ok"
         /\ lastResp' = lastResp)
        => (state' = state /\ refreshes' = 2) ]_vars

C9_Witness ==
    /\ refreshes = 2
    /\ lastOp = "Read"
    /\ outcome = "ok"
    /\ kind = "device"
    /\ lastResp.name = NULL
    /\ lastResp.snmp_port = NULL
    /\ state.snmp_port # NULL

\* C10, as claimed: a successful Apply-Update leaves in every field other
\* than id the value that Refresh computes from the same prior state and
\* the same response.
C10_UpdateMergesAsRefresh ==
    [][ (lastOp' = "Update" /\ outcome' = "ok")
        => \A f \in FieldsOf(kind) \ {"id"} :
             state'[f] = (IF kind = "site"
                          THEN SiteReadMerge(state, lastResp')
                          ELSE DeviceReadMerge(state, lastResp'))[f] ]_vars

\* C10, amended: a successful Apply-Update agrees with Refresh on every field
\* other than id and inserted_at that the response carries, and on a
\* device's site_id, organization_id and SNMPv3 fields also when the
\* response omits them; any other omitted field keeps its planned value,
\* and id and inserted_at keep their prior values.
C10_UpdateMerge ==
    [][ (lastOp' = "Update" /\ outcome' = "ok")
        => /\ state'.id = state.id
           /\ state'.inserted_at = state.inserted_at
           /\ \A f \in FieldsOf(kind) \ {"id", "inserted_at"} :
                 IF lastResp'[f] # NULL \/ f \in ParentFields \cup V3Fields
                 THEN state'[f] = (IF kind = "site"
                                   THEN SiteReadMerge(state, lastResp')
                                   ELSE DeviceReadMerge(state, lastResp'))[f]
                 ELSE state'[f] = plan'[f] ]_vars

C10_Witness ==
    /\ lastOp = "Update"
    /\ outcome = "ok"
    /\ kind = "site"
    /\ lastResp.location = NULL
    /\ state.location # NULL
    /\ state.location = plan.location

\* C11: an Apply-Delete whose delete call fails with an error other than
\* NotFound reports the delete error and leaves the instance Bound with the
\* state, id included, as it was.
C11_DeleteFailure ==
    [][ (lastOp' = "Delete" /\ lastErr' \notin {NoErr, ErrNotFound})
        => /\ diag' \in {"Failed to delete site", "Failed to delete device"}
           /\ Len(calls') = 1
           /\ calls'[1].method = "DELETE"
           /\ calls'[1].id = state.id
           /\ lifecycle = "Bound"
           /\ lifecycle' = "Bound"
           /\ state' = state ]_vars

C11_Witness ==
    /\ lastOp = "Delete"
    /\ lastErr = APIErr(500)
    /\ diag = "Failed to delete device"
    /\ lifecycle = "Bound"
    /\ state.id = IdOf(1)
    /\ IdOf(1) \in remote

\* C12 (only NotFound triggers recovery): a Read or Update whose read or
\* update call fails with a remote error other than 404, a decode error or
\* a transport error reports that error, issues no further call (no
\* create), and leaves the instance Bound with its state unchanged.
C12_OnlyNotFoundRecovers ==
    [][ (lastOp' \in {"Read", "Update"} /\ errs'[1] \notin {NoErr, ErrNotFound})
        => /\ errs'[1].kind \in {"api", "decode", "transport"}
           /\ diag' = (IF lastOp' = "Read" THEN ReadErrorSummary(kind)
                                           ELSE UpdateErrorSummary(kind))
           /\ lastErr' = errs'[1]
           /\ Len(calls') = 1
           /\ calls'[1].method \in {"GET", "PATCH"}
           /\ lifecycle' = "Bound"
           /\ state' = state
           /\ remote' = remote
           /\ nextId' = nextId ]_vars

C12_Witness ==
    /\ lastOp = "Update"
    /\ errs = <<DecodeErr>>
    /\ diag = "Failed to update site"
    /\ lifecycle = "Bound"
    /\ state.id \in remote

\* C13 (status code -> outcome): for every call of the last handler, a 2xx
\* reply is a success (the body is then decoded, and only a decode error can
\* follow), a 404 is ErrNotFound, any other status from 400 up is a remote
\* error carrying the status; the error is ErrNotFound exactly when the
\* status is 404, whether or not the body is JSON.
C13_StatusMapping ==
    /\ Len(replies) = Len(calls)
    /\ Len(errs) = Len(calls)
    /\ \A i \in 1..Len(calls) :
         LET r == replies[i]
             e == errs[i]
         IN  /\ (e = ErrNotFound) <=> (~r.transport /\ r.status = 404)
             /\ (~r.transport /\ r.status \in 200..299)
                  => /\ e.kind \in {"nil", "decode"}
                     /\ (e = NoErr) <=> (r.valid \/ calls[i].method = "DELETE")
             /\ (~r.transport /\ r.status >= 400 /\ r.status # 404)
                  => e = APIError(r.status, r.body)

C13_Witness ==
    /\ Len(calls) = 2
    /\ calls[1].method = "PATCH"
    /\ replies[1].status = 404
    /\ ~replies[1].valid
    /\ errs[1] = ErrNotFound
    /\ replies[2].status = 422
    /\ errs[2] = APIErr(422)

\* C14, as claimed: the only success statuses are 201 for create, 200 for
\* read and update, and 204 for delete; a call answered with any other
\* status returns an error.
C14_OnlyDocumentedSuccess ==
    \A i \in 1..Len(calls) :
        LET ok == CASE calls[i].method = "POST"   -> 201
                    [] calls[i].method = "DELETE" -> 204
                    [] OTHER                      -> 200
        IN  (~replies[i].transport /\ replies[i].status # ok) => errs[i] # NoErr

\* C15: for create, read and update, a reply with a success status whose
\* body is not valid JSON yields a decode error: the call returns an error
\* that is neither ErrNotFound nor a remote (status) error, and no resource;
\* the handler ends on it and reports it.
C15_DecodeError ==
    \A i \in 1..Len(calls) :
        (/\ calls[i].method \in {"POST", "GET", "PATCH"}
         /\ ~replies[i].transport
         /\ replies[i].status < 400
         /\ ~replies[i].valid)
        => /\ errs[i] = DecodeErr
           /\ errs[i] # ErrNotFound
           /\ errs[i].kind # "api"
           /\ i = Len(calls)
           /\ lastErr = DecodeErr
           /\ lastResp = NullObj(kind)
           /\ diag # ""

C15_Witness ==
    /\ lastOp = "Create"
    /\ kind = "device"
    /\ replies[1].status = 201
    /\ ~replies[1].valid
    /\ errs = <<DecodeErr>>
    /\ diag = "Failed to create device"

\* C16 (immutable parent): for a Bound device, an Update is run only for a
\* configuration whose site_id and organization_id are unset or equal to the
\* state's, and its PATCH (and the POST of a recreate) carries the parent
\* reference of the state; a configuration that changes either is applied as
\* a replacement that starts with Delete and issues no PATCH.
C16_ImmutableParent ==
    [][ (kind = "device" /\ lifecycle = "Bound")
        => /\ (lastOp' = "Update"
                 => /\ calls'[1].method = "PATCH"
                    /\ calls'[1].id = state.id
                    /\ \A f \in ParentFields :
                         /\ declared'[f] \in {NULL, state[f]}
                         /\ \A i \in 1..Len(calls') : calls'[i].body[f] = state[f])
           /\ ((\E f \in ParentFields : declared'[f] \notin {NULL, state[f]})
                 => /\ lastOp' = "Delete"
                    /\ outcome' \in {"replacing", "error"}
                    /\ Len(calls') = 1
                    /\ calls'[1].method = "DELETE"
                    /\ calls'[1].id = state.id) ]_vars

C16_Witness ==
    /\ kind = "device"
    /\ lastOp = "Delete"
    /\ outcome = "replacing"
    /\ lifecycle = "Unbound"
    /\ declared.site_id # NULL
    /\ Len(calls) = 1
    /\ state = NullObj("device")

\* C17, as claimed: a device declared with both site_id and organization_id
\* set is rejected with an error before any remote call is issued.
C17_BothParentsRejected ==
    (/\ kind = "device"
     /\ lastOp \in {"Create", "Update", "Delete"}
     /\ declared.site_id # NULL
     /\ declared.organization_id # NULL)
    => (Len(calls) = 0 /\ diag # "")

\* C18 (round-trip defaults): for a device declared without
\* monitoring_enabled, snmp_enabled, snmp_version or snmp_port, the plan
\* holds true, true, "2c" and 161 for the unset ones, and the create call
\* carries those values in its payload.
C18_DefaultsInPayload ==
    (kind = "device" /\ lastOp = "Create")
        => /\ Len(calls) = 1
           /\ calls[1].method = "POST"
           /\ \A f \in DefaultedFields :
                declared[f] = NULL
                  => LET d == CASE f = "monitoring_enabled" -> "true"
                                [] f = "snmp_enabled"       -> "true"
                                [] f = "snmp_version"       -> "2c"
                                [] f = "snmp_port"          -> "161"
                     IN  plan[f] = d /\ calls[1].body[f] = d

C18_Witness ==
    /\ kind = "device"
    /\ lastOp = "Create"
    /\ outcome = "ok"
    /\ \A f \in DefaultedFields : declared[f] = NULL
    /\ calls[1].body.monitoring_enabled = "true"
    /\ calls[1].body.snmp_enabled = "true"
    /\ calls[1].body.snmp_version = "2c"
    /\ calls[1].body.snmp_port = "161"

\* C19, as claimed: when the remote system reports a value of a defaulted
\* field, Read writes it into the state, and no Update is issued whose only
\* purpose is to send the default back: every Update has a difference
\* between proposed and prior state outside the unset defaulted fields.
C19_ServerWinsOnDefaults ==
    [][ kind = "device"
        => /\ (lastOp' = "Read" /\ outcome' = "ok")
                => \A f \in DefaultedFields :
                     lastResp'[f] # NULL => state'[f] = lastResp'[f]
           /\ lastOp' = "Update"
                => \E f \in DeviceFields :
                     /\ DeviceProposed(declared', state)[f] # state[f]
                     /\ ~(f \in DefaultedFields /\ declared'[f] = NULL) ]_vars

\* C20, as claimed: for a device whose snmp_version is not "3", SNMPv3 fields
\* that the remote system omits from a read or update response keep the
\* value they had (the declared one), so the state does not drift from the
\* declaration.
C20_V3FieldsInert ==
    [][ (/\ kind = "device"
         /\ lastOp' \in {"Read", "Update"}
         /\ outcome' = "ok"
         /\ state'.snmp_version # "3")
        => \A f \in V3Fields :
             lastResp'[f] = NULL
               => state'[f] = (IF lastOp' = "Read" THEN state[f] ELSE declared'[f]) ]_vars

\* C21 (no automatic retries): Create, Read and Delete issue exactly one
\* remote call whatever its outcome; Update issues exactly one PATCH, and
\* exactly one POST after it if and only if the PATCH returned ErrNotFound.
C21_NoRetries ==
    /\ (lastOp = "Create" => Len(calls) = 1 /\ calls[1].method = "POST")
    /\ (lastOp = "Read"   => Len(calls) = 1 /\ calls[1].method = "GET")
    /\ (lastOp = "Delete" => Len(calls) = 1 /\ calls[1].method = "DELETE")
    /\ (lastOp = "Update"
          => /\ Len(calls) \in {1, 2}
             /\ calls[1].method = "PATCH"
             /\ (Len(calls) = 2) <=> (errs[1] = ErrNotFound)
             /\ (Len(calls) = 2 => calls[2].method = "POST"))
    /\ (lastOp \in {"none", "OutOfBand"} => Len(calls) = 0)

C21_Witness ==
    /\ lastOp = "Update"
    /\ Len(calls) = 1
    /\ errs = <<APIErr(500)>>
    /\ kind = "device"

\* C22: every GET, PATCH and DELETE that Read, Update or Delete issues
\* carries the id returned by the most recent successful create or recreate
\* (for an imported instance, the id it was imported under), which is the
\* id the state holds; a successful recreate stores a new id, and an id
\* that a recreate has replaced is not used in any later call.
C22_KeyedByBoundId ==
    [][ /\ (lifecycle = "Bound" => state.id = boundId /\ boundId # NULL)
        /\ \A i \in 1..Len(calls') :
             /\ calls'[i].id \notin stale
             /\ (calls'[i].method \in {"GET", "PATCH", "DELETE"}
                   /\ lastOp' # "Import"
                   => calls'[i].id = boundId)
        /\ (outcome' = "recreated"
              => /\ boundId' = lastResp'.id
                 /\ boundId' # boundId
                 /\ boundId \in stale'
                 /\ state'.id = boundId') ]_vars

C22_Witness ==
    /\ lastOp \in {"Read", "Update", "Delete"}
    /\ Len(calls) = 1
    /\ calls[1].id = IdOf(2)
    /\ stale = {IdOf(1)}
    /\ lastErr = NoErr

\* C23, as claimed: a failed Create, Update or Delete whose last call was
\* answered with an error status reports an error that names the operation
\* and the resource kind and carries the status code and the remote
\* system's message.
C23_ErrorCarriesRemoteMessage ==
    (/\ lastOp \in {"Create", "Update", "Delete"}
     /\ lastErr # NoErr
     /\ ~replies[Len(replies)].transport
     /\ replies[Len(replies)].status >= 400)
    => /\ diag \in { CreateErrorSummary(kind), UpdateErrorSummary(kind),
                     RecreateErrorSummary(kind), DeleteErrorSummary(kind) }
       /\ lastErr.status = replies[Len(replies)].status
       /\ lastErr.msg = SelectMessage(replies[Len(replies)].body).msg

\* C24: create is POST on /api/v1/sites or /api/v1/devices; read, update and
\* delete are GET, PATCH and DELETE on /api/v1/sites/{id} or
\* /api/v1/devices/{id}, with {id} the id passed to the call; each handler
\* uses the method of its operation (an import reads, with GET).
C24_MethodAndPath ==
    /\ \A i \in 1..Len(calls) :
         LET c    == calls[i]
             coll == IF kind = "site" THEN "sites" ELSE "devices"
         IN  /\ c.method \in {"POST", "GET", "PATCH", "DELETE"}
             /\ (c.method = "POST" => c.path = <<"api", "v1", coll>>)
             /\ (c.method # "POST" => c.path = <<"api", "v1", coll, c.id>> /\ c.id # "")
    /\ (Len(calls) > 0
          => calls[1].method = CASE lastOp = "Create" -> "POST"
                                 [] lastOp \in {"Read", "Import"} -> "GET"
                                 [] lastOp = "Update" -> "PATCH"
                                 [] lastOp = "Delete" -> "DELETE")

C24_Witness ==
    /\ kind = "device"
    /\ lastOp = "Update"
    /\ outcome = "recreated"
    /\ calls[1].path = <<"api", "v1", "devices", IdOf(1)>>
    /\ calls[2].path = <<"api", "v1", "devices">>

\* C25: the body of every create and update request is an object with the
\* single top-level key "site" or "device" (the kind) whose value is the
\* field map built from the plan; GET and DELETE send no body; the resource
\* a successful create, read or update returns is made of the top-level
\* members of the response body.
C25_Envelope ==
    /\ \A i \in 1..Len(calls) :
         IF calls[i].method \in {"POST", "PATCH"}
         THEN /\ calls[i].envelope = kind
              /\ calls[i].envelope \in {"site", "device"}
              /\ calls[i].body = (IF kind = "site" THEN SitePayload(plan)
                                                  ELSE DevicePayload(plan))
         ELSE calls[i].envelope = "none" /\ calls[i].body = NilBody
    /\ ((lastOp \in {"Create", "Read", "Update"} /\ lastErr = NoErr /\ lifecycle = "Bound")
          => lastResp = replies[Len(replies)].obj)

C25_Witness ==
    /\ kind = "site"
    /\ lastOp = "Update"
    /\ outcome = "ok"
    /\ calls[1].envelope = "site"
    /\ calls[1].body.name = "b"
    /\ lastResp.name = "a"


----------------------------------------------------------------------------
\* C26: every remote call a handler issues, for every operation and both
\* kinds, carries Authorization "Bearer <token>" with the token the client
\* was constructed with, and the JSON Content-Type and Accept headers.
C26_BearerAndJsonHeaders ==
    \A i \in 1..Len(calls) :
        /\ client # NoClient
        /\ client.Token = providerConfig.token
        /\ calls[i].headers.Authorization = <<"Bearer", providerConfig.token>>
        /\ calls[i].headers.ContentType = "application/json"
        /\ calls[i].headers.Accept = "application/json"

\* A device delete issued by a client constructed with the token "tok2".
C26_Witness ==
    /\ kind = "device"
    /\ lastOp = "Delete"
    /\ Len(calls) = 1
    /\ providerConfig.token = "tok2"
    /\ calls[1].headers.Authorization = <<"Bearer", "tok2">>

----------------------------------------------------------------------------
----------------------------------------------------------------------------
\* C28: when the provider block sets no token and the environment variable
\* TOWEROPS_TOKEN holds a non-empty value, Configure succeeds and the client
\* uses that value as its bearer token.
C28_EnvTokenConfigures ==
    (providerConfig.token = NULL /\ Environ.TOWEROPS_TOKEN # "") =>
        /\ providerDiag = ""
        /\ client # NoClient
        /\ client.Token = Environ.TOWEROPS_TOKEN

----------------------------------------------------------------------------
----------------------------------------------------------------------------
\* C30: the state held after a successful import of a remote object equals
\* the state held after Apply-Create answered with that object followed by a
\* Refresh answered with that object, whatever the declared configuration.
C30_ImportRoundTrip ==
    (lastOp = "Import" /\ outcome = "ok") =>
        IF kind = "site"
        THEN \A cfg \in SiteConfigs :
               state = SiteReadMerge(
                          SiteCreateMerge(SitePlan(cfg, NullObj("site"), TRUE), lastResp),
                          lastResp)
        ELSE \A cfg \in DeviceConfigs :
               state = DeviceReadMerge(
                          DeviceCreateMerge(DevicePlan(cfg, NullObj("device"), TRUE), lastResp),
                          lastResp)

----------------------------------------------------------------------------
\* The payload Apply-Create sends and the state it writes on the response
\* created, for the configuration cfg.
CreateResult(k, cfg, created) ==
    IF k = "site"
    THEN LET data == SitePlan(cfg, NullObj("site"), TRUE)
         IN  <<SitePayload(data), SiteCreateMerge(data, created)>>
    ELSE LET data == DevicePlan(cfg, NullObj("device"), TRUE)
         IN  <<DevicePayload(data), DeviceCreateMerge(data, created)>>

\* C31: for every optional attribute, declaring it absent, declaring it
\* null and declaring it with a value are three distinguishable inputs of a
\* create: with the rest of the configuration and the response the same, no
\* two of them give the same payload and state.
C31_TriState ==
    (lastOp = "Create" /\ outcome = "ok") =>
        \A f \in OptionalFields(kind) :
            \A p, q \in Presence :
                p # q =>
                    CreateResult(kind, [declared EXCEPT ![f] = Declare(p, Fam(f, 2))], lastResp)
                      # CreateResult(kind, [declared EXCEPT ![f] = Declare(q, Fam(f, 2))], lastResp)

----------------------------------------------------------------------------
\* C32: two instances on one client are reconciled independently.  No step
\* changes the client.  The data of the instance that is not being operated
\* on changes in no handler step: it only changes place with the other one,
\* with the client and the remote system left as they are.  A handler step
\* issues no call on the object of the instance it does not operate on, and
\* leaves that object in the remote system as it is.  Each handler step is
\* therefore the step the instance takes when it is run alone on the same
\* replies.
C32_Independent ==
    [][ /\ client' = client
        /\ (other' # other =>
              /\ other' = Instance
              /\ <<kind', lifecycle', state', boundId', stale'>>
                   = <<other.kind, other.lifecycle, other.state, other.boundId, other.stale>>
              /\ calls' = <<>>
              /\ remote' = remote
              /\ nextId' = nextId)
        /\ (other' = other /\ other # NoInstance /\ other.boundId # NULL =>
              /\ \A i \in 1..Len(calls') :
                   calls'[i].method # "POST" =>
                       calls'[i].path # <<"api", "v1",
                                          IF other.kind = "site" THEN "sites" ELSE "devices",
                                          other.boundId>>
              /\ (other.boundId \in remote' <=> other.boundId \in remote)) ]_vars

\* A site has been updated while the second instance, a site too, is bound
\* to another object.
C32_Witness ==
    /\ other # NoInstance
    /\ other.kind = "site"
    /\ other.lifecycle = "Bound"
    /\ kind = "site"
    /\ lifecycle = "Bound"
    /\ lastOp = "Update"
    /\ outcome = "ok"
    /\ state.id # other.state.id

----------------------------------------------------------------------------
\* C33: the state the recreate path of Apply-Update writes is the state
\* Apply-Create writes for the same planned values and the same create
\* response, field for field.
C33_RecreateIsCreate ==
    (lastOp = "Update" /\ outcome = "recreated") =>
        state = (IF kind = "site" THEN SiteCreateMerge(plan, lastResp)
                                  ELSE DeviceCreateMerge(plan, lastResp))

----------------------------------------------------------------------------
\* C34: the body Apply-Update sends is the body Apply-Create builds for the
\* same planned values; the id is not a member of the body and reaches the
\* remote system only as the id argument of the update call.
C34_UpdatePayloadAsCreate ==
    (lastOp = "Update" /\ Len(calls) >= 1) =>
        /\ calls[1].method = "PATCH"
        /\ calls[1].body = (IF kind = "site" THEN SitePayload(plan)
                                             ELSE DevicePayload(plan))
        /\ "id" \notin DOMAIN calls[1].body
        /\ calls[1].id = plan.id
        /\ calls[1].id # NULL

\* A site update that changed the declared values has been sent.
C34_Witness ==
    /\ kind = "site"
    /\ lastOp = "Update"
    /\ outcome = "ok"
    /\ Len(calls) = 1
    /\ calls[1].body.name = "b"
    /\ calls[1].id = IdOf(1)

----------------------------------------------------------------------------
----------------------------------------------------------------------------
\* C36: the id in the state of a Bound instance changes only in a
\* successful recreate, and an instance becomes Bound only in a successful
\* create (or import), in each case to the id of the create response (the
\* id imported); a successful Refresh, a successful in-place update and
\* every failed operation leave the id as it was, also when the response
\* carries another id.
C36_IdFrame ==
    [][ /\ (lifecycle = "Bound" /\ lifecycle' = "Bound" /\ state'.id # state.id
              => /\ lastOp' = "Update"
                 /\ outcome' = "recreated"
                 /\ state'.id = lastResp'.id)
        /\ (lifecycle # "Bound" /\ lifecycle' = "Bound"
              => \/ lastOp' = "Create" /\ outcome' = "ok" /\ state'.id = lastResp'.id
                 \/ lastOp' = "Import" /\ outcome' = "ok" /\ state'.id = calls'[1].id)
        /\ (lastOp' \in {"Read", "Update"} /\ outcome' = "ok"
              => state'.id = state.id)
        /\ (outcome' \in {"error", "recreate_failed"}
              => state'.id = state.id /\ lifecycle' = lifecycle) ]_vars

\* A Refresh has been answered with an object under another id.
C36_Witness ==
    /\ lastOp = "Read"
    /\ outcome = "ok"
    /\ lifecycle = "Bound"
    /\ lastResp.id = ForeignId
    /\ state.id = IdOf(1)

----------------------------------------------------------------------------
\* C37: a Bound instance holds an id that is not empty.
C37_BoundHasId ==
    lifecycle = "Bound" => state.id \notin {"", NULL, UNKNOWN}

\* C38: for an error status other than 404 the message of the error is the
\* body's error string when that is not empty, otherwise the body's
\* validation map when that is not empty, otherwise the text of the body;
\* in each case the error carries the status code.
C38_MessageOrder ==
    \A i \in 1..Len(replies) :
        LET r == replies[i]
            b == r.body
            e == errs[i]
        IN  (~r.transport /\ r.status >= 400 /\ r.status # 404)
              => /\ e.kind = "api"
                 /\ e.status = r.status
                 /\ (b.json /\ b.error # "")
                      => (e.format = "API error" /\ e.msg = b.error)
                 /\ (b.json /\ b.error = "" /\ b.errors # {})
                      => /\ e.format = "API validation error"
                         /\ e.msg = Sprint(b.errors)
                 /\ (~b.json \/ (b.error = "" /\ b.errors = {}))
                      => (e.format = "API error" /\ e.msg = b.raw)

\* A create was answered 422 with a body holding both the error string and
\* the validation map, and the error took the string.
C38_Witness ==
    /\ lastOp = "Create"
    /\ Len(replies) = 1
    /\ replies[1].status = 422
    /\ replies[1].body.error = "rejected"
    /\ replies[1].body.errors # {}
    /\ errs[1].msg = "rejected"
    /\ errs[1].status = 422
    /\ outcome = "error"

====
